---- MODULE Spec2Model ----
(***************************************************************************)
(* StACSOS kernel system-call entry point (handle_syscall) with its        *)
(* directory enumeration path (do_readdir), as a state machine.            *)
(*                                                                         *)
(* Machine words are WordBits wide (the kernel's u64, scaled); all address *)
(* arithmetic of the code is taken modulo Word; an unsigned int is         *)
(* UIntBits wide.  Strings are sequences of character codes, a C string    *)
(* being the sequence before its NUL.                                      *)
(***************************************************************************)
EXTENDS Integers, Sequences, FiniteSets, TLC

VARIABLES
    kstate,    \* "running", or "fault" once the kernel dereferenced a bad pointer
    regions,   \* regions[p]: the regions of process p's address space
    nextRgn,   \* the next fresh region identity
    storage,   \* the backing storage of the regions: the log of kernel copies into it
    loaded,    \* the directories whose children have been loaded from disk
    objects,   \* objects[p]: process p's handle table, id -> object
    nextId,    \* the object manager's next handle id
    procs,     \* procs[p]: "running" or "stopped"
    hw,        \* the hardware registers the dispatcher writes
    frame,     \* frame[t]: the kernel stack frame of thread t's system call
    last,      \* the system call that returned most recently, with its result
    calls,     \* the number of system calls issued so far
    closed,    \* closed[p]: the handle ids process p has passed to close, each with
               \* whether the process was handed that id again since
    budget,    \* the number of system calls the run may issue
    ls,        \* the ls program: its command line, its place in main, what it has done
    dirs       \* the children lists in memory: what other operations changed in them

vars == <<kstate, regions, nextRgn, storage, loaded, objects, nextId, procs, hw,
          frame, last, calls, closed, budget, ls, dirs>>

----------------------------------------------------------------------------
(* Bounds of the model *)

WordBits == 16
MaxEntriesArg == 3
MaxCalls == 2
MaxRegions == 4
MaxOpcode == 20
MaxId == 4
UIntBits == 12

Word == 2 ^ WordBits

----------------------------------------------------------------------------
(* Program constants *)

MAX_FILE_NAME_LENGTH == 64

\* struct dirent: char name[64]; char type; (3 bytes of padding); unsigned int size
SizeofDirent == MAX_FILE_NAME_LENGTH + 1 + 3 + 4

PAGE_SIZE == 4096

\* syscall_result_code
RcOk == 0
RcNotFound == 1
RcNotSupported == 2

CharSlash == 47
CharD == 100
CharF == 102

----------------------------------------------------------------------------
(* Processes and threads *)

Procs == {"p1", "p2"}
Threads == {"t1", "t2", "t3"}

\* thread::owner()
Owner(t) == IF t = "t3" THEN "p2" ELSE "p1"

----------------------------------------------------------------------------
(* The filesystem tree behind vfs::get() *)

Rep(c, n) == [i \in 1..n |-> c]

NoNode == "null"
Nodes == {"root", "n65", "n64", "n63", "docs", "atxt", "sub"}

NodeName(n) ==
    CASE n = "root" -> <<>>
      [] n = "n65"  -> Rep(120, MAX_FILE_NAME_LENGTH + 1)
      [] n = "n64"  -> Rep(121, MAX_FILE_NAME_LENGTH)
      [] n = "n63"  -> Rep(122, MAX_FILE_NAME_LENGTH - 1)
      [] n = "docs" -> <<100, 111, 99, 115>>
      [] n = "atxt" -> <<97, 46, 116, 120, 116>>
      [] n = "sub"  -> <<115, 117, 98>>

\* fs_node::kind()
NodeKind(n) == IF n \in {"n64", "n63", "atxt"} THEN "file" ELSE "directory"

\* fs_node::size(): the size field of a FAT directory entry is as wide as an unsigned
\* int; n63 has the largest size it holds
NodeSize(n) ==
    CASE n = "n64"  -> 7
      [] n = "n63"  -> 2 ^ UIntBits - 1
      [] n = "atxt" -> 120
      [] OTHER      -> 4096

\* the children of a directory as they are on disk, in iteration order
DiskChildren(n) ==
    CASE n = "root" -> <<"n65", "n64", "n63", "docs">>
      [] n = "docs" -> <<"atxt", "sub">>
      [] OTHER      -> <<>>

NodePath(n) ==
    CASE n = "root" -> <<CharSlash>>
      [] n = "docs" -> <<CharSlash>> \o NodeName("docs")
      [] n = "atxt" -> <<CharSlash>> \o NodeName("docs") \o <<CharSlash>> \o NodeName("atxt")
      [] n = "sub"  -> <<CharSlash>> \o NodeName("docs") \o <<CharSlash>> \o NodeName("sub")
      [] OTHER      -> <<CharSlash>> \o NodeName(n)

\* vfs::lookup(path): the node at that absolute path, or nullptr
Lookup(chars) ==
    IF \E n \in Nodes : NodePath(n) = chars
    THEN CHOOSE n \in Nodes : NodePath(n) = chars
    ELSE NoNode

\* fat_node::children(): the list is empty until the directory has been loaded
Children(n, ld) == IF n \in ld THEN DiskChildren(n) ELSE <<>>

\* A user pointer to a C string: the null pointer, or the characters before the NUL
NullPath == [null |-> TRUE, s |-> <<>>]
Str(chars) == [null |-> FALSE, s |-> chars]

PathEmpty == Str(<<>>)
PathRoot == Str(<<CharSlash>>)
PathDocs == Str(NodePath("docs"))
PathSub == Str(NodePath("sub"))
PathFile == Str(NodePath("atxt"))
PathMissing == Str(<<CharSlash, 110, 111>>)
PathRelative == Str(NodeName("docs"))

Paths == {NullPath, PathEmpty, PathRoot, PathDocs, PathSub, PathFile, PathMissing,
          PathRelative}

----------------------------------------------------------------------------
(* Address spaces *)

NoRgn == [id |-> 0, base |-> 0, size |-> 0, writable |-> FALSE]

RgnA == [id |-> 1, base |-> PAGE_SIZE,     size |-> PAGE_SIZE, writable |-> TRUE]
RgnB == [id |-> 2, base |-> 2 * PAGE_SIZE, size |-> PAGE_SIZE, writable |-> FALSE]
RgnC == [id |-> 3, base |-> 4 * PAGE_SIZE, size |-> PAGE_SIZE, writable |-> TRUE]
RgnD == [id |-> 4, base |-> 2 * PAGE_SIZE, size |-> PAGE_SIZE, writable |-> TRUE]
RgnE == [id |-> 5, base |-> 8 * PAGE_SIZE, size |-> PAGE_SIZE, writable |-> TRUE]

\* the address spaces the processes start with: p1 has a read-only region right
\* after a writable one, p2 has a writable region where p1 has the read-only one
InitRegions == [p \in Procs |-> IF p = "p1" THEN {RgnA, RgnB, RgnC} ELSE {RgnD, RgnE}]

\* address_space::get_region_from_address(addr): the region holding addr, or nullptr
GetRegionFromAddress(rgns, addr) ==
    IF \E r \in rgns : r.base <= addr /\ addr < r.base + r.size
    THEN CHOOSE r \in rgns : r.base <= addr /\ addr < r.base + r.size
    ELSE NoRgn

\* the user buffers a caller passes: the start of a writable region, one and two
\* records before the end of one, a place where the second record straddles the
\* end, a read-only, an unmapped and a foreign address, null, the top of memory
UserBufs ==
    { RgnA.base,
      RgnA.base + RgnA.size - SizeofDirent,
      RgnA.base + RgnA.size - SizeofDirent - 28,
      RgnC.base + RgnC.size - 2 * SizeofDirent,
      RgnB.base,
      3 * PAGE_SIZE,
      RgnE.base,
      0,
      Word - SizeofDirent }

----------------------------------------------------------------------------
(* do_readdir *)

\* ent is a local of the loop body: outside it the frame holds no record
NoEnt == [name |-> <<>>, type |-> 0, size |-> 0]

\* The kernel frame of a thread: "user" when the thread is not in a system call.
\* looked, built, checked and written record what the call has done so far.
Idle ==
    [pc |-> "user", caller |-> "none", path |-> NullPath, user_buf |-> 0,
     max_entries |-> 0,
     node |-> NoNode, it |-> 1, counter |-> 0, ent |-> NoEnt, dst |-> 0,
     rgn |-> NoRgn, code |-> RcOk, data |-> 0,
     looked |-> <<>>, built |-> 0, checked |-> <<>>, written |-> <<>>]

\* return syscall_result { code, data }
RdResult(f, code, data) ==
    [f EXCEPT !.pc = "rd_ret", !.code = code, !.data = data, !.ent = NoEnt]

\* A faulty variant: the empty path is taken for a relative one
RdLookupPath_EmptyIsRelative(path) ==
    IF path.null THEN <<<<CharSlash>>>>
    ELSE IF path.s # <<>> /\ path.s[1] = CharSlash THEN <<path.s>>
    ELSE <<>>

\* The path a readdir call looks up: "/" for a null or empty path, the path itself
\* when it is absolute, nothing (<<>>) for any other path
RdLookupPath(path) ==
    IF path.null \/ path.s = <<>> THEN <<<<CharSlash>>>>
    ELSE IF path.s[1] = CharSlash THEN <<path.s>>
    ELSE <<>>

\* A faulty variant: the kind of the node is not checked
RdEnter_NoKindCheck(f, ld) ==
    LET lk == RdLookupPath(f.path)
    IN  IF lk = <<>>
        THEN [f |-> RdResult(f, RcNotSupported, 0), loaded |-> ld]
        ELSE LET node == Lookup(lk[1])
                 f1 == [f EXCEPT !.looked = lk, !.node = node]
             IN  IF node = NoNode
                 THEN [f |-> RdResult(f1, RcNotFound, 0), loaded |-> ld]
                 ELSE [f |-> [f1 EXCEPT !.pc = "rd_loop"], loaded |-> ld \cup {node}]

\* A faulty variant: the children are loaded before the kind of the node is checked
RdEnter_LoadsFirst(f, ld) ==
    LET lk == RdLookupPath(f.path)
    IN  IF lk = <<>>
        THEN [f |-> RdResult(f, RcNotSupported, 0), loaded |-> ld]
        ELSE LET node == Lookup(lk[1])
                 f1 == [f EXCEPT !.looked = lk, !.node = node]
             IN  IF node = NoNode
                 THEN [f |-> RdResult(f1, RcNotFound, 0), loaded |-> ld]
                 ELSE IF NodeKind(node) # "directory"
                 THEN [f |-> RdResult(f1, RcNotSupported, 0), loaded |-> ld \cup {node}]
                 ELSE [f |-> [f1 EXCEPT !.pc = "rd_loop"], loaded |-> ld \cup {node}]

\* do_readdir up to the loop: path classification, lookup, kind check, ensure_loaded.
\* Yields the frame and the set of loaded directories.
RdEnter(f, ld) ==
    LET lk == RdLookupPath(f.path)
    IN  IF lk = <<>>
        THEN [f |-> RdResult(f, RcNotSupported, 0), loaded |-> ld]
        ELSE LET node == Lookup(lk[1])
                 f1 == [f EXCEPT !.looked = lk, !.node = node]
             IN  IF node = NoNode
                 THEN [f |-> RdResult(f1, RcNotFound, 0), loaded |-> ld]
                 ELSE IF NodeKind(node) # "directory"
                 THEN [f |-> RdResult(f1, RcNotSupported, 0), loaded |-> ld]
                 ELSE [f |-> [f1 EXCEPT !.pc = "rd_loop"], loaded |-> ld \cup {node}]

\* A faulty variant: only a name longer than the field is cut
NameCopy_CutsAbove64(nm) ==
    LET length == IF Len(nm) > MAX_FILE_NAME_LENGTH
                  THEN MAX_FILE_NAME_LENGTH - 1 ELSE Len(nm)
    IN  [i \in (0..(MAX_FILE_NAME_LENGTH - 1)) \cup (0..length) |->
            IF i < length THEN nm[i + 1] ELSE 0]

\* The name field of dirent ent = {} after memcpy(ent.name, nm.c_str(), length) and
\* ent.name[length] = 0.
\* An index beyond the field is a write past the end of ent.name.
NameCopy(nm) ==
    LET length == IF Len(nm) >= MAX_FILE_NAME_LENGTH
                  THEN MAX_FILE_NAME_LENGTH - 1 ELSE Len(nm)
    IN  [i \in (0..(MAX_FILE_NAME_LENGTH - 1)) \cup (0..length) |->
            IF i < length THEN nm[i + 1] ELSE 0]

\* (unsigned int)x: the value in the width of the size field
UIntCast(x) == x % (2 ^ UIntBits)

\* The record built for a child
BuildEnt(child) ==
    [name |-> NameCopy(NodeName(child)),
     type |-> IF NodeKind(child) = "directory" THEN CharD ELSE CharF,
     size |-> IF NodeKind(child) = "file" THEN UIntCast(NodeSize(child)) ELSE 0]

\* (u64)((dirent *)user_buf + counter)
DstAddress(user_buf, counter) == (user_buf + counter * SizeofDirent) % Word

\* A faulty variant: the loop stops one record after max_entries
RdLoopHead_CapOffByOne(f, ld) ==
    LET kids == Children(f.node, ld)
    IN  IF f.it > Len(kids) \/ f.counter > f.max_entries
        THEN RdResult(f, RcOk, f.counter)
        ELSE [f EXCEPT !.pc = "rd_validate",
                       !.ent = BuildEnt(kids[f.it]),
                       !.built = f.built + 1,
                       !.dst = DstAddress(f.user_buf, f.counter)]

\* The head of the loop: leave it when the children are exhausted or max_entries
\* records were written, else build the next child's record and its destination
RdLoopHead(f, ld) ==
    LET kids == Children(f.node, ld)
    IN  IF f.it > Len(kids) \/ f.counter >= f.max_entries
        THEN RdResult(f, RcOk, f.counter)
        ELSE [f EXCEPT !.pc = "rd_validate",
                       !.ent = BuildEnt(kids[f.it]),
                       !.built = f.built + 1,
                       !.dst = DstAddress(f.user_buf, f.counter)]

\* A faulty variant: the end of the record is not checked against the end of the region
RdValidate_NoBoundsCheck(f, rgns) ==
    LET rgn == GetRegionFromAddress(rgns, f.dst)
    IN  IF rgn = NoRgn
        THEN RdResult(f, RcNotSupported, 0)
        ELSE IF ~rgn.writable
        THEN RdResult(f, RcNotSupported, 0)
        ELSE [f EXCEPT !.pc = "rd_copy", !.rgn = rgn,
                       !.checked = Append(f.checked, [dst |-> f.dst, rgn |-> rgn.id])]

\* A faulty variant: the writable flag of the region is not checked
RdValidate_NoWritableCheck(f, rgns) ==
    LET rgn == GetRegionFromAddress(rgns, f.dst)
    IN  IF rgn = NoRgn
        THEN RdResult(f, RcNotSupported, 0)
        ELSE IF (f.dst + SizeofDirent) % Word > (rgn.base + rgn.size) % Word
        THEN RdResult(f, RcNotSupported, 0)
        ELSE [f EXCEPT !.pc = "rd_copy", !.rgn = rgn,
                       !.checked = Append(f.checked, [dst |-> f.dst, rgn |-> rgn.id])]

\* The three checks on the destination, against the caller's address space
RdValidate(f, rgns) ==
    LET rgn == GetRegionFromAddress(rgns, f.dst)
    IN  IF rgn = NoRgn
        THEN RdResult(f, RcNotSupported, 0)
        ELSE IF (f.dst + SizeofDirent) % Word > (rgn.base + rgn.size) % Word
        THEN RdResult(f, RcNotSupported, 0)
        ELSE IF ~rgn.writable
        THEN RdResult(f, RcNotSupported, 0)
        ELSE [f EXCEPT !.pc = "rd_copy", !.rgn = rgn,
                       !.checked = Append(f.checked, [dst |-> f.dst, rgn |-> rgn.id])]

\* A faulty variant: the counter is not advanced after the copy
RdCopy_NoIncrement(f, st) ==
    LET offset == (f.dst - f.rgn.base) % Word
        w == [by |-> f.caller, rgn |-> f.rgn.id, off |-> offset, ent |-> f.ent]
    IN  [f |-> [f EXCEPT !.pc = "rd_loop",
                         !.it = f.it + 1, !.ent = NoEnt,
                         !.written = Append(f.written,
                                            [dst |-> f.dst, rgn |-> f.rgn.id,
                                             off |-> offset, ent |-> f.ent])],
         storage |-> Append(st, w)]

\* memcpy(kdst, &ent, sizeof(ent)) into the region's storage, then ++counter.
\* Yields the frame and the storage.
RdCopy(f, st) ==
    LET offset == (f.dst - f.rgn.base) % Word
        w == [by |-> f.caller, rgn |-> f.rgn.id, off |-> offset, ent |-> f.ent]
    IN  [f |-> [f EXCEPT !.pc = "rd_loop", !.counter = f.counter + 1,
                         !.it = f.it + 1, !.ent = NoEnt,
                         !.written = Append(f.written,
                                            [dst |-> f.dst, rgn |-> f.rgn.id,
                                             off |-> offset, ent |-> f.ent])],
         storage |-> Append(st, w)]

\* do_readdir run to its return with nothing else running: the frame at the return
\* and the storage and loaded directories it leaves
RECURSIVE RunReaddir(_, _, _, _)
RunReaddir(f, rgns, ld, st) ==
    CASE f.pc = "rd_enter" ->
            LET e == RdEnter(f, ld) IN RunReaddir(e.f, rgns, e.loaded, st)
      [] f.pc = "rd_loop" -> RunReaddir(RdLoopHead(f, ld), rgns, ld, st)
      [] f.pc = "rd_validate" -> RunReaddir(RdValidate(f, rgns[f.caller]), rgns, ld, st)
      [] f.pc = "rd_copy" ->
            LET c == RdCopy(f, st) IN RunReaddir(c.f, rgns, ld, c.storage)
      [] OTHER -> [f |-> f, storage |-> st, loaded |-> ld]

----------------------------------------------------------------------------
(* The object manager and the objects *)

NoObj == [id |-> 0, kind |-> "none"]

\* object_manager::get_object(owner, id): the object under that id in the owner's
\* table, or nullptr
GetObject(tbl, id) ==
    IF \E o \in tbl : o.id = id THEN CHOOSE o \in tbl : o.id = id ELSE NoObj

\* object_manager::free_object(owner, id)
FreeObject(tbl, id) == {o \in tbl : o.id # id}

\* object_manager::create_*_object(owner, x): the object, under a handle id not
\* used before
CreateObject(id, kind) == [id |-> id, kind |-> kind]

\* the record of close(id), and of id being handed out (again), in a process's history
NoteClose(cl, id) == {c \in cl : c.id # id} \cup {[id |-> id, again |-> FALSE]}
NoteIssue(cl, id) == {IF c.id = id THEN [c EXCEPT !.again = TRUE] ELSE c : c \in cl}

\* what an object operation may answer: operation_result { code, data }
OpResults ==
    {[code |-> RcOk, data |-> 9], [code |-> RcNotFound, data |-> 0],
     [code |-> RcNotSupported, data |-> 9]}

\* the arguments handle_syscall passes to the object operation of each call
OpWrite(a)   == [op |-> "write",  args |-> <<a[2], a[3]>>]
OpPwrite(a)  == [op |-> "pwrite", args |-> <<a[2], a[3], a[4]>>]
OpRead(a)    == [op |-> "read",   args |-> <<a[2], a[3]>>]
\* A faulty variant: pread forwards what read forwards
OpPread_DropsOffset(a) == [op |-> "pread", args |-> <<a[2], a[3]>>]

OpPread(a)   == [op |-> "pread",  args |-> <<a[2], a[3], a[4]>>]
OpIoctl(a)   == [op |-> "ioctl",  args |-> <<a[2], a[3], a[4]>>]
OpWait(a)    == [op |-> "wait_for_status_change", args |-> <<>>]
OpJoin(a)    == [op |-> "join",   args |-> <<>>]

\* operation_result_to_syscall_result(o)
OperationResultToSyscallResult(o) == [code |-> o.code, data |-> o.data]

----------------------------------------------------------------------------
(* handle_syscall *)

\* enum syscall_numbers, numbered from 0 in this order
SyscallNames ==
    <<"exit", "set_fs", "set_gs", "open", "close", "write", "pwrite", "read", "pread",
      "ioctl", "alloc_mem", "start_process", "wait_for_process", "start_thread",
      "stop_current_thread", "join_thread", "sleep", "poweroff", "readdir">>

\* the number of each enumerator
Numbers ==
    [name \in {SyscallNames[i] : i \in 1..Len(SyscallNames)} |->
        (CHOOSE i \in 1..Len(SyscallNames) : SyscallNames[i] = name) - 1]
Num(name) == Numbers[name]

\* the numbers that are case labels of the switch
CaseLabels == {Numbers[name] : name \in DOMAIN Numbers}

\* the operation codes a caller passes: the enumerators and the numbers after them
Opcodes == 0..MaxOpcode

NoCall == [thread |-> "none", index |-> 0 - 1, args |-> <<>>, returned |-> FALSE,
           code |-> RcOk, data |-> 0, invoked |-> <<>>, logged |-> FALSE]

\* the record of a system call returning to its thread
Ret(t, index, args, code, data, invoked, logged) ==
    [thread |-> t, index |-> index, args |-> args, returned |-> TRUE, code |-> code,
     data |-> data, invoked |-> invoked, logged |-> logged]

\* the record of a system call that has trapped and not returned
Trapped(t, index, args) ==
    [thread |-> t, index |-> index, args |-> args, returned |-> FALSE, code |-> RcOk,
     data |-> 0, invoked |-> <<>>, logged |-> FALSE]

\* a thread can run kernel code
Live(t) == kstate = "running" /\ hw.power = "on" /\ procs[Owner(t)] = "running"

\* thread t traps into the kernel from user mode
Trap(t) == calls < budget /\ Live(t) /\ frame[t].pc = "user" /\ calls' = calls + 1

\* case syscall_numbers::exit
SysExit(t, a) ==
    /\ Trap(t)
    /\ procs' = [procs EXCEPT ![Owner(t)] = "stopped"]
    /\ last' = Ret(t, Num("exit"), a, RcOk, 0, <<>>, FALSE)
    /\ UNCHANGED <<kstate, regions, nextRgn, storage, loaded, objects, nextId, hw,
                   frame, closed, budget, ls, dirs>>

\* case syscall_numbers::set_fs
SysSetFs(t, a) ==
    /\ Trap(t)
    /\ hw' = [hw EXCEPT !.fs = a[1]]
    /\ last' = Ret(t, Num("set_fs"), a, RcOk, 0, <<>>, FALSE)
    /\ UNCHANGED <<kstate, regions, nextRgn, storage, loaded, objects, nextId, procs,
                   frame, closed, budget, ls, dirs>>

\* case syscall_numbers::set_gs
SysSetGs(t, a) ==
    /\ Trap(t)
    /\ hw' = [hw EXCEPT !.gs = a[1]]
    /\ last' = Ret(t, Num("set_gs"), a, RcOk, 0, <<>>, FALSE)
    /\ UNCHANGED <<kstate, regions, nextRgn, storage, loaded, objects, nextId, procs,
                   frame, closed, budget, ls, dirs>>

\* fs_node::open(): a file for a file node, nullptr for a directory
NodeOpen(node) == NodeKind(node) = "file"

\* A faulty variant: the file object is not put into the owner's table
DoOpen_NoHandle(tbl, id, path) ==
    LET node == Lookup(path.s)
    IN  IF node = NoNode
        THEN [code |-> RcNotFound, data |-> 0, tbl |-> tbl]
        ELSE IF ~NodeOpen(node)
        THEN [code |-> RcNotSupported, data |-> 0, tbl |-> tbl]
        ELSE [code |-> RcOk, data |-> id, tbl |-> tbl]

\* do_open(owner, path): the result and the owner's handle table
DoOpen(tbl, id, path) ==
    LET node == Lookup(path.s)
    IN  IF node = NoNode
        THEN [code |-> RcNotFound, data |-> 0, tbl |-> tbl]
        ELSE IF ~NodeOpen(node)
        THEN [code |-> RcNotSupported, data |-> 0, tbl |-> tbl]
        ELSE [code |-> RcOk, data |-> id, tbl |-> tbl \cup {CreateObject(id, "file")}]

\* case syscall_numbers::open
SysOpen(t, path, a) ==
    /\ Trap(t)
    /\ nextId <= MaxId
    /\ LET r == DoOpen(objects[Owner(t)], nextId, path)
       IN  /\ objects' = [objects EXCEPT ![Owner(t)] = r.tbl]
           /\ nextId' = IF r.code = RcOk THEN nextId + 1 ELSE nextId
           /\ closed' = IF r.code = RcOk
                         THEN [closed EXCEPT ![Owner(t)] = NoteIssue(@, nextId)]
                         ELSE closed
           /\ last' = Ret(t, Num("open"), <<path>> \o Tail(a), r.code, r.data, <<>>, FALSE)
    /\ UNCHANGED <<kstate, regions, nextRgn, storage, loaded, procs, hw, frame, budget, ls, dirs>>

\* A faulty variant: close leaves the object in the table
SysClose_KeepsObject(t, a) ==
    /\ Trap(t)
    /\ closed' = [closed EXCEPT ![Owner(t)] = NoteClose(@, a[1])]
    /\ last' = Ret(t, Num("close"), a, RcOk, 0, <<>>, FALSE)
    /\ UNCHANGED <<kstate, regions, nextRgn, storage, loaded, objects, nextId, procs,
                   hw, frame, budget, ls, dirs>>

\* A faulty variant: close of an id the table does not hold answers not_found
SysClose_RefusesAbsent(t, a) ==
    /\ Trap(t)
    /\ objects' = [objects EXCEPT ![Owner(t)] = FreeObject(@, a[1])]
    /\ closed' = [closed EXCEPT ![Owner(t)] = NoteClose(@, a[1])]
    /\ last' = IF GetObject(objects[Owner(t)], a[1]) = NoObj
               THEN Ret(t, Num("close"), a, RcNotFound, 0, <<>>, FALSE)
               ELSE Ret(t, Num("close"), a, RcOk, 0, <<>>, FALSE)
    /\ UNCHANGED <<kstate, regions, nextRgn, storage, loaded, nextId, procs, hw, frame,
                   budget, ls, dirs>>

\* case syscall_numbers::close
SysClose(t, a) ==
    /\ Trap(t)
    /\ objects' = [objects EXCEPT ![Owner(t)] = FreeObject(@, a[1])]
    /\ closed' = [closed EXCEPT ![Owner(t)] = NoteClose(@, a[1])]
    /\ last' = Ret(t, Num("close"), a, RcOk, 0, <<>>, FALSE)
    /\ UNCHANGED <<kstate, regions, nextRgn, storage, loaded, nextId, procs, hw, frame,
                   budget, ls, dirs>>

\* The cases that look the handle arg0 up and forward to the object: not_found
\* when the calling process has no such object, else the operation's own result
ObjectCall(t, index, a, call) ==
    /\ Trap(t)
    /\ LET o == GetObject(objects[Owner(t)], a[1])
       IN  IF o = NoObj
           THEN last' = Ret(t, index, a, RcNotFound, 0, <<>>, FALSE)
           ELSE \E res \in OpResults :
                   LET r == OperationResultToSyscallResult(res)
                   IN  last' = Ret(t, index, a, r.code, r.data,
                                   <<[obj |-> o.id, owner |-> Owner(t), op |-> call.op,
                                      args |-> call.args, res |-> res]>>, FALSE)
    /\ UNCHANGED <<kstate, regions, nextRgn, storage, loaded, objects, nextId, procs,
                   hw, frame, closed, budget, ls, dirs>>

\* case syscall_numbers::write
SysWrite(t, a) == ObjectCall(t, Num("write"), a, OpWrite(a))

\* case syscall_numbers::pwrite
SysPwrite(t, a) == ObjectCall(t, Num("pwrite"), a, OpPwrite(a))

\* case syscall_numbers::read
SysRead(t, a) == ObjectCall(t, Num("read"), a, OpRead(a))

\* case syscall_numbers::pread
SysPread(t, a) == ObjectCall(t, Num("pread"), a, OpPread(a))

\* case syscall_numbers::ioctl
SysIoctl(t, a) == ObjectCall(t, Num("ioctl"), a, OpIoctl(a))

\* case syscall_numbers::wait_for_process
SysWaitForProcess(t, a) == ObjectCall(t, Num("wait_for_process"), a, OpWait(a))

\* case syscall_numbers::join_thread
SysJoinThread(t, a) == ObjectCall(t, Num("join_thread"), a, OpJoin(a))

\* PAGE_ALIGN_UP(x)
PageAlignUp(x) == (((x + PAGE_SIZE - 1) % Word) \div PAGE_SIZE) * PAGE_SIZE

\* address_space::alloc_region(size, flags, allocate): a new region above the
\* regions there are, or nullptr when the address space has no room for it
AllocRegion(rgns, id, size) ==
    LET top == IF rgns = {} THEN PAGE_SIZE
               ELSE CHOOSE e \in {r.base + r.size : r \in rgns} :
                       \A r \in rgns : r.base + r.size <= e
    IN  IF top + size > Word \div 2
        THEN NoRgn
        ELSE [id |-> id, base |-> top, size |-> size, writable |-> TRUE]

\* case syscall_numbers::alloc_mem.  rgn->base is read without a check: with no
\* region (nullptr) the kernel faults or reads the word at that place of page 0.
SysAllocMem(t, a) ==
    /\ Trap(t)
    /\ Cardinality(regions[Owner(t)]) < MaxRegions
    /\ LET p == Owner(t)
           rgn == AllocRegion(regions[p], nextRgn, PageAlignUp(a[1]))
       IN  IF rgn # NoRgn
           THEN /\ regions' = [regions EXCEPT ![p] = @ \cup {rgn}]
                /\ nextRgn' = nextRgn + 1
                /\ last' = Ret(t, Num("alloc_mem"), a, RcOk, rgn.base, <<>>, FALSE)
                /\ UNCHANGED kstate
           ELSE \E outcome \in {"fault", "read"} :
                   /\ kstate' = IF outcome = "fault" THEN "fault" ELSE kstate
                   /\ last' = IF outcome = "fault" THEN Trapped(t, Num("alloc_mem"), a)
                              ELSE Ret(t, Num("alloc_mem"), a, RcOk, 0, <<>>, FALSE)
                   /\ UNCHANGED <<regions, nextRgn>>
    /\ UNCHANGED <<storage, loaded, objects, nextId, procs, hw, frame, closed, budget, ls, dirs>>

\* process_manager::create_process(path, args): nullptr unless path names a file
CreateProcess(path) == Lookup(path.s) # NoNode /\ NodeKind(Lookup(path.s)) = "file"

\* case syscall_numbers::start_process (the dprintf is a log line)
SysStartProcess(t, path, a) ==
    /\ Trap(t)
    /\ nextId <= MaxId
    /\ IF ~CreateProcess(path)
       THEN /\ last' = Ret(t, Num("start_process"), <<path>> \o Tail(a), RcNotFound, 0,
                           <<>>, TRUE)
            /\ UNCHANGED <<objects, nextId, closed>>
       ELSE /\ objects' = [objects EXCEPT ![Owner(t)] = @ \cup {CreateObject(nextId, "process")}]
            /\ nextId' = nextId + 1
            /\ closed' = [closed EXCEPT ![Owner(t)] = NoteIssue(@, nextId)]
            /\ last' = Ret(t, Num("start_process"), <<path>> \o Tail(a), RcOk, nextId,
                           <<>>, TRUE)
    /\ UNCHANGED <<kstate, regions, nextRgn, storage, loaded, procs, hw, frame, budget, ls, dirs>>

\* case syscall_numbers::start_thread
SysStartThread(t, a) ==
    /\ Trap(t)
    /\ nextId <= MaxId
    /\ objects' = [objects EXCEPT ![Owner(t)] = @ \cup {CreateObject(nextId, "thread")}]
    /\ nextId' = nextId + 1
    /\ closed' = [closed EXCEPT ![Owner(t)] = NoteIssue(@, nextId)]
    /\ last' = Ret(t, Num("start_thread"), a, RcOk, nextId, <<>>, FALSE)
    /\ UNCHANGED <<kstate, regions, nextRgn, storage, loaded, procs, hw, frame, budget, ls, dirs>>

\* A faulty variant: the thread is run again and gets the trailing return ok
SysStopCurrentThread_Returns(t, a) ==
    /\ Trap(t)
    /\ last' = Ret(t, Num("stop_current_thread"), a, RcOk, 0, <<>>, FALSE)
    /\ UNCHANGED <<kstate, regions, nextRgn, storage, loaded, objects, nextId, procs,
                   hw, frame, closed, budget, ls, dirs>>

\* case syscall_numbers::stop_current_thread: the thread is stopped and the
\* reschedule interrupt raised; the scheduler does not run the thread again
SysStopCurrentThread(t, a) ==
    /\ Trap(t)
    /\ frame' = [frame EXCEPT ![t] = [Idle EXCEPT !.pc = "stopped"]]
    /\ last' = Trapped(t, Num("stop_current_thread"), a)
    /\ UNCHANGED <<kstate, regions, nextRgn, storage, loaded, objects, nextId, procs,
                   hw, closed, budget, ls, dirs>>

\* case syscall_numbers::sleep
SysSleep(t, a) ==
    /\ Trap(t)
    /\ last' = Ret(t, Num("sleep"), a, RcOk, 0, <<>>, FALSE)
    /\ UNCHANGED <<kstate, regions, nextRgn, storage, loaded, objects, nextId, procs,
                   hw, frame, closed, budget, ls, dirs>>

\* case syscall_numbers::poweroff
SysPoweroff(t, a) ==
    /\ Trap(t)
    /\ hw' = [hw EXCEPT !.power = "off"]
    /\ last' = Ret(t, Num("poweroff"), a, RcOk, 0, <<>>, FALSE)
    /\ UNCHANGED <<kstate, regions, nextRgn, storage, loaded, objects, nextId, procs,
                   frame, closed, budget, ls, dirs>>

\* The frame of a thread of process caller (thread::current().owner()) that has
\* just trapped into readdir(path, user_buf, max_entries)
RdFrame(caller, path, user_buf, max_entries) ==
    [Idle EXCEPT !.pc = "rd_enter", !.caller = caller, !.path = path,
                 !.user_buf = user_buf, !.max_entries = max_entries]

\* case syscall_numbers::readdir: do_readdir((const char *)arg0, (void *)arg1, arg2)
SysReaddir(t, path, a) ==
    /\ Trap(t)
    /\ frame' = [frame EXCEPT ![t] = RdFrame(Owner(t), path, a[2], a[3])]
    /\ last' = Trapped(t, Num("readdir"), <<path>> \o Tail(a))
    /\ UNCHANGED <<kstate, regions, nextRgn, storage, loaded, objects, nextId, procs,
                   hw, closed, budget, ls, dirs>>

\* A faulty variant: an unknown code is answered ok
SysDefault_ReturnsOk(t, index, a) ==
    /\ Trap(t)
    /\ index \notin CaseLabels
    /\ last' = Ret(t, index, a, RcOk, 0, <<>>, TRUE)
    /\ UNCHANGED <<kstate, regions, nextRgn, storage, loaded, objects, nextId, procs,
                   hw, frame, closed, budget, ls, dirs>>

\* default: dprintf("ERROR: unsupported syscall"), not_supported
SysDefault(t, index, a) ==
    /\ Trap(t)
    /\ index \notin CaseLabels
    /\ last' = Ret(t, index, a, RcNotSupported, 0, <<>>, TRUE)
    /\ UNCHANGED <<kstate, regions, nextRgn, storage, loaded, objects, nextId, procs,
                   hw, frame, closed, budget, ls, dirs>>

----------------------------------------------------------------------------
(* The steps of a readdir call *)

RdEnterStep(t) ==
    /\ Live(t) /\ frame[t].pc = "rd_enter"
    /\ LET e == RdEnter(frame[t], loaded)
       IN  /\ frame' = [frame EXCEPT ![t] = e.f]
           /\ loaded' = e.loaded
    /\ UNCHANGED <<kstate, regions, nextRgn, storage, objects, nextId, procs, hw,
                   last, calls, closed, budget, ls, dirs>>

RdLoopStep(t) ==
    /\ Live(t) /\ frame[t].pc = "rd_loop"
    /\ frame' = [frame EXCEPT ![t] = RdLoopHead(frame[t], loaded)]
    /\ UNCHANGED <<kstate, regions, nextRgn, storage, loaded, objects, nextId, procs,
                   hw, last, calls, closed, budget, ls, dirs>>

RdValidateStep(t) ==
    /\ Live(t) /\ frame[t].pc = "rd_validate"
    /\ frame' = [frame EXCEPT ![t] = RdValidate(frame[t], regions[frame[t].caller])]
    /\ UNCHANGED <<kstate, regions, nextRgn, storage, loaded, objects, nextId, procs,
                   hw, last, calls, closed, budget, ls, dirs>>

\* The copy goes through the region pointer taken at validation.  When the region
\* has been freed since, the pointer dangles: the copy lands in storage the caller
\* no longer owns, or the kernel faults.
RdCopyStep(t) ==
    /\ Live(t) /\ frame[t].pc = "rd_copy"
    /\ \E outcome \in (IF frame[t].rgn \in regions[frame[t].caller]
                       THEN {"copy"} ELSE {"copy", "fault"}) :
          IF outcome = "copy"
          THEN LET c == RdCopy(frame[t], storage)
               IN  /\ frame' = [frame EXCEPT ![t] = c.f]
                   /\ storage' = c.storage
                   /\ UNCHANGED kstate
          ELSE /\ kstate' = "fault"
               /\ UNCHANGED <<frame, storage>>
    /\ UNCHANGED <<regions, nextRgn, loaded, objects, nextId, procs, hw, last, calls,
                   closed, budget, ls, dirs>>

\* return from do_readdir and from handle_syscall
RdReturnStep(t) ==
    /\ Live(t) /\ frame[t].pc = "rd_ret"
    /\ frame' = [frame EXCEPT ![t] = Idle]
    /\ last' = Ret(t, Num("readdir"),
                   <<frame[t].path, frame[t].user_buf, frame[t].max_entries, 0>>,
                   frame[t].code, frame[t].data, <<>>, FALSE)
    /\ UNCHANGED <<kstate, regions, nextRgn, storage, loaded, objects, nextId, procs,
                   hw, calls, closed, budget, ls, dirs>>

\* The address space drops a region of the process (an unmap by another thread):
\* the operation section 5 of the specification reckons with
RemoveRegion(t, r) ==
    /\ Trap(t)
    /\ r \in regions[Owner(t)]
    /\ regions' = [regions EXCEPT ![Owner(t)] = @ \ {r}]
    /\ UNCHANGED <<kstate, nextRgn, storage, loaded, objects, nextId, procs, hw,
                   frame, last, closed, budget, ls, dirs>>

----------------------------------------------------------------------------
(* The ls program: main and ls of user/ls *)

\* char arg1[128], arg2[128]; dirent entries[256]; ' ', '-', 'l'
ArgSize == 128
LsEntries == 256
CharSpace == 32
CharDash == 45
CharL == 108

\* "-l"
DashL == <<CharDash, CharL>>

\* while (pos < len && cmdline[pos] != ' ' && j < sizeof(arg) - 1) arg[j++] = cmdline[pos++]:
\* the argument and the position the loop ends with
RECURSIVE TakeArg(_, _, _)
TakeArg(chars, pos, arg) ==
    IF pos < Len(chars) /\ chars[pos + 1] # CharSpace /\ Len(arg) < ArgSize - 1
    THEN TakeArg(chars, pos + 1, Append(arg, chars[pos + 1]))
    ELSE [arg |-> arg, pos |-> pos]

\* while (pos < len && cmdline[pos] == ' ') pos++
RECURSIVE SkipSpaces(_, _)
SkipSpaces(chars, pos) ==
    IF pos < Len(chars) /\ chars[pos + 1] = CharSpace
    THEN SkipSpaces(chars, pos + 1)
    ELSE pos

\* the two arguments main extracts from a command line that is not empty
LsArgs(chars) ==
    LET a1 == TakeArg(chars, 0, <<>>)
        a2 == TakeArg(chars, SkipSpaces(chars, a1.pos), <<>>)
    IN  [arg1 |-> a1.arg, arg2 |-> a2.arg]

\* ls is not running
LsIdle == [pc |-> "none", cmdline |-> NullPath, long_flag |-> FALSE, path |-> NullPath,
           reads |-> <<>>, usage |-> FALSE, status |-> 0 - 1]

\* main has been entered with a command line
LsEntered(cmdline) == [LsIdle EXCEPT !.pc = "main", !.cmdline = cmdline]

\* main calls ls(long_flag, path)
LsCall(l, long_flag, chars) ==
    [l EXCEPT !.pc = "ls", !.long_flag = long_flag, !.path = Str(chars)]

\* main without the usage error: two arguments always list the first one
LsMain_NoUsage(l) ==
    IF l.cmdline.null \/ Len(l.cmdline.s) = 0
    THEN LsCall(l, FALSE, <<>>)
    ELSE LET a == LsArgs(l.cmdline.s)
         IN  IF a.arg2 = <<>>
             THEN IF a.arg1 = DashL THEN LsCall(l, TRUE, <<>>)
                  ELSE LsCall(l, FALSE, a.arg1)
             ELSE IF a.arg1 = DashL THEN LsCall(l, TRUE, a.arg2)
                  ELSE LsCall(l, FALSE, a.arg1)

\* main up to its call of ls, or to its return 1 after the usage message
LsMain(l) ==
    IF l.cmdline.null \/ Len(l.cmdline.s) = 0
    THEN LsCall(l, FALSE, <<>>)
    ELSE LET a == LsArgs(l.cmdline.s)
         IN  IF a.arg2 = <<>>
             THEN IF a.arg1 = DashL THEN LsCall(l, TRUE, <<>>)
                  ELSE LsCall(l, FALSE, a.arg1)
             ELSE IF a.arg1 = DashL THEN LsCall(l, TRUE, a.arg2)
                  ELSE [l EXCEPT !.pc = "exit", !.usage = TRUE, !.status = 1]

\* ls(long_flag, path): syscalls::read_dir(path, entries, 256), the listing printed,
\* and the return 0 of main that follows
LsList(l) ==
    [l EXCEPT !.pc = "exit", !.status = 0,
              !.reads = Append(@, [path |-> l.path, max_entries |-> LsEntries])]

\* the kernel is left alone by the steps of ls
KernelVars == <<kstate, regions, nextRgn, storage, loaded, objects, nextId, procs, hw,
                frame, last, calls, closed, budget, dirs>>

LsMainStep ==
    /\ ls.pc = "main"
    /\ ls' = LsMain(ls)
    /\ UNCHANGED KernelVars

LsListStep ==
    /\ ls.pc = "ls"
    /\ ls' = LsList(ls)
    /\ UNCHANGED KernelVars

----------------------------------------------------------------------------
(* The children lists in memory *)

\* no other operation has changed a children list
NoChange == [unlinked |-> {}, torn |-> {}]

\* the threads between ensure_loaded and the end of the loop over the children of d
Iterating(d) ==
    {u \in Threads : frame[u].pc \in {"rd_loop", "rd_validate", "rd_copy"}
                     /\ frame[u].node = d}

\* Another operation takes the child c out of the children list of the loaded
\* directory d: the structural change section 5 of the specification reckons with.
\* do_readdir holds no lock from ensure_loaded to the end of its loop, so nothing
\* keeps the change out of an iteration; torn records the threads it cuts into.
UnlinkChild(t, d, c) ==
    /\ Trap(t)
    /\ d \in loaded
    /\ \E i \in DOMAIN DiskChildren(d) : DiskChildren(d)[i] = c
    /\ c \notin dirs.unlinked
    /\ dirs' = [unlinked |-> dirs.unlinked \cup {c}, torn |-> dirs.torn \cup Iterating(d)]
    /\ UNCHANGED <<kstate, regions, nextRgn, storage, loaded, objects, nextId, procs,
                   hw, frame, last, closed, budget, ls>>

\* for (auto *child : fatnode->children()) after the list was changed under the
\* loop: the iterator may refer to an element that is gone.  Going on with what the
\* iterator still reads is RdLoopStep; here the kernel faults on it.
RdLoopTornStep(t) ==
    /\ Live(t) /\ frame[t].pc = "rd_loop"
    /\ t \in dirs.torn
    /\ kstate' = "fault"
    /\ UNCHANGED <<regions, nextRgn, storage, loaded, objects, nextId, procs, hw,
                   frame, last, calls, closed, budget, ls, dirs>>

----------------------------------------------------------------------------
(* Specifications *)

\* the arguments arg1..arg3 of the calls in which only arg0 matters
RestArgs == <<11, 12, 13>>

InitBase ==
    /\ kstate = "running"
    /\ regions = InitRegions
    /\ nextRgn = 6
    /\ storage = <<>>
    /\ loaded = {}
    /\ objects = [p \in Procs |-> IF p = "p1" THEN {CreateObject(1, "file")}
                                               ELSE {CreateObject(2, "file")}]
    /\ nextId = 3
    /\ closed = [p \in Procs |-> {}]
    /\ procs = [p \in Procs |-> "running"]
    /\ hw = [fs |-> 0, gs |-> 0, power |-> "on"]
    /\ dirs = NoChange

\* Every thread is in user mode
Init ==
    /\ InitBase
    /\ ls = LsIdle
    /\ frame = [t \in Threads |-> Idle]
    /\ last = NoCall
    /\ calls = 0
    /\ budget = MaxCalls

\* the handle ids a caller passes: those handed out so far and the one handed out next
HandleArgs == 1..(IF nextId < MaxId THEN nextId ELSE MaxId)
\* the sizes a caller asks alloc_mem for, and the words it passes elsewhere
WordArgs == {0, 1, PAGE_SIZE + 1, Word \div 2, Word - 1}
RegArgs == {1, Word \div 2}
\* the paths a caller passes to open and start_process
OpenPaths == {PathFile, PathDocs, PathMissing}

Next ==
    \/ \E t \in Threads : SysExit(t, <<0>> \o RestArgs)
    \/ \E t \in Threads, w \in RegArgs : SysSetFs(t, <<w>> \o RestArgs)
    \/ \E t \in Threads, w \in RegArgs : SysSetGs(t, <<w>> \o RestArgs)
    \/ \E t \in Threads, path \in OpenPaths : SysOpen(t, path, <<0>> \o RestArgs)
    \/ \E t \in Threads, h \in HandleArgs : SysClose(t, <<h>> \o RestArgs)
    \/ \E t \in Threads, h \in HandleArgs : SysWrite(t, <<h>> \o RestArgs)
    \/ \E t \in Threads, h \in HandleArgs : SysPwrite(t, <<h>> \o RestArgs)
    \/ \E t \in Threads, h \in HandleArgs : SysRead(t, <<h>> \o RestArgs)
    \/ \E t \in Threads, h \in HandleArgs : SysPread(t, <<h>> \o RestArgs)
    \/ \E t \in Threads, h \in HandleArgs : SysIoctl(t, <<h>> \o RestArgs)
    \/ \E t \in Threads, w \in WordArgs : SysAllocMem(t, <<w>> \o RestArgs)
    \/ \E t \in Threads, path \in OpenPaths : SysStartProcess(t, path, <<0>> \o RestArgs)
    \/ \E t \in Threads, h \in HandleArgs : SysWaitForProcess(t, <<h>> \o RestArgs)
    \/ \E t \in Threads : SysStartThread(t, <<0>> \o RestArgs)
    \/ \E t \in Threads : SysStopCurrentThread(t, <<0>> \o RestArgs)
    \/ \E t \in Threads, h \in HandleArgs : SysJoinThread(t, <<h>> \o RestArgs)
    \/ \E t \in Threads, w \in RegArgs : SysSleep(t, <<w>> \o RestArgs)
    \/ \E t \in Threads : SysPoweroff(t, <<0>> \o RestArgs)
    \/ \E t \in Threads, path \in {PathDocs, PathFile},
          buf \in {RgnA.base, RgnB.base} :
          SysReaddir(t, path, <<0, buf, 1, 0>>)
    \/ \E t \in Threads : RdEnterStep(t)
    \/ \E t \in Threads : RdLoopStep(t)
    \/ \E t \in Threads : RdValidateStep(t)
    \/ \E t \in Threads : RdCopyStep(t)
    \/ \E t \in Threads : RdReturnStep(t)
    \/ \E t \in Threads, index \in Opcodes, w \in RegArgs :
          SysDefault(t, index, <<w>> \o RestArgs)

Spec == Init /\ [][Next]_vars

\* Every thread is in user mode, and the run may issue one call more
InitObj ==
    /\ InitBase
    /\ ls = LsIdle
    /\ frame = [t \in Threads |-> Idle]
    /\ last = NoCall
    /\ calls = 0
    /\ budget = MaxCalls + 1

\* The calls that create, use and release handles
NextObj ==
    \/ \E t \in Threads, path \in OpenPaths : SysOpen(t, path, <<0>> \o RestArgs)
    \/ \E t \in Threads, h \in HandleArgs : SysClose(t, <<h>> \o RestArgs)
    \/ \E t \in Threads, h \in HandleArgs : SysWrite(t, <<h>> \o RestArgs)
    \/ \E t \in Threads, h \in HandleArgs : SysPwrite(t, <<h>> \o RestArgs)
    \/ \E t \in Threads, h \in HandleArgs : SysRead(t, <<h>> \o RestArgs)
    \/ \E t \in Threads, h \in HandleArgs : SysPread(t, <<h>> \o RestArgs)
    \/ \E t \in Threads, h \in HandleArgs : SysIoctl(t, <<h>> \o RestArgs)
    \/ \E t \in Threads, path \in OpenPaths : SysStartProcess(t, path, <<0>> \o RestArgs)
    \/ \E t \in Threads, h \in HandleArgs : SysWaitForProcess(t, <<h>> \o RestArgs)
    \/ \E t \in Threads : SysStartThread(t, <<0>> \o RestArgs)
    \/ \E t \in Threads, h \in HandleArgs : SysJoinThread(t, <<h>> \o RestArgs)

SpecObj == InitObj /\ [][NextObj]_vars

\* A thread has just trapped into readdir; the other threads are in user mode
InitRd ==
    /\ InitBase
    /\ ls = LsIdle
    /\ calls = 1
    /\ budget = MaxCalls
    /\ \E t \in Threads, path \in Paths, buf \in UserBufs, max \in 0..MaxEntriesArg :
          /\ frame = [u \in Threads |->
                        IF u = t THEN RdFrame(Owner(t), path, buf, max) ELSE Idle]
          /\ last = Trapped(t, Num("readdir"), <<path, buf, max, 0>>)

\* the sizes a thread asks alloc_mem for while a readdir call runs
AllocArgs == {1, PAGE_SIZE + 1}

\* One readdir call, and the other threads allocating memory meanwhile
NextRd ==
    \/ \E t \in Threads : RdEnterStep(t)
    \/ \E t \in Threads : RdLoopStep(t)
    \/ \E t \in Threads : RdValidateStep(t)
    \/ \E t \in Threads : RdCopyStep(t)
    \/ \E t \in Threads : RdReturnStep(t)
    \/ \E t \in Threads, w \in AllocArgs : SysAllocMem(t, <<w>> \o RestArgs)

SpecRd == InitRd /\ [][NextRd]_vars

\* the steps of the readdir call of a thread
RdSteps(t) ==
    \/ RdEnterStep(t)
    \/ RdLoopStep(t)
    \/ RdValidateStep(t)
    \/ RdCopyStep(t)
    \/ RdReturnStep(t)

\* One readdir call and nothing else
NextLoop == \E t \in Threads : RdSteps(t)

\* A call runs on the kernel stack of its thread and do_readdir does not block: a
\* thread inside it goes on taking its steps, each of which changes its frame
SpecLoop == InitRd /\ [][NextLoop]_vars /\ \A t \in Threads : WF_frame(RdSteps(t))

\* One readdir call, and the other threads of the process mapping and unmapping
\* regions meanwhile
NextRace ==
    \/ NextRd
    \/ \E t \in Threads : \E r \in regions[Owner(t)] : RemoveRegion(t, r)

SpecRace == InitRd /\ [][NextRace]_vars

\* the regions at the top of the address space: one that ends ten bytes below the
\* last address, one that ends with it, and the last page
TopRegions ==
    { [id |-> 1, base |-> Word - 200, size |-> 190, writable |-> TRUE],
      [id |-> 1, base |-> Word - 200, size |-> 200, writable |-> TRUE],
      [id |-> 1, base |-> Word - PAGE_SIZE, size |-> PAGE_SIZE, writable |-> TRUE] }

\* the user buffers in such a region: its start, the places one and two records
\* before its end, and places where a record straddles its end
TopBufs(r) ==
    { r.base,
      r.base + r.size - SizeofDirent,
      r.base + r.size - 2 * SizeofDirent,
      r.base + r.size - SizeofDirent + 8,
      r.base + r.size - 2 * SizeofDirent + 8 }

\* A thread has just trapped into readdir of the root; its process has one region,
\* at the top of the address space
InitTop ==
    /\ kstate = "running"
    /\ nextRgn = 6
    /\ storage = <<>>
    /\ loaded = {}
    /\ objects = [p \in Procs |-> IF p = "p1" THEN {CreateObject(1, "file")}
                                               ELSE {CreateObject(2, "file")}]
    /\ nextId = 3
    /\ closed = [p \in Procs |-> {}]
    /\ procs = [p \in Procs |-> "running"]
    /\ hw = [fs |-> 0, gs |-> 0, power |-> "on"]
    /\ dirs = NoChange
    /\ ls = LsIdle
    /\ calls = 1
    /\ budget = MaxCalls
    /\ \E t \in Threads, r \in TopRegions, max \in 0..MaxEntriesArg :
          \E buf \in TopBufs(r) :
              /\ regions = [p \in Procs |-> IF p = Owner(t) THEN {r} ELSE {}]
              /\ frame = [u \in Threads |->
                            IF u = t THEN RdFrame(Owner(t), PathRoot, buf, max) ELSE Idle]
              /\ last = Trapped(t, Num("readdir"), <<PathRoot, buf, max, 0>>)

SpecTop == InitTop /\ [][NextRd]_vars

\* One readdir call, and the other threads changing children lists meanwhile
NextDir ==
    \/ NextRd
    \/ \E t \in Threads, d \in Nodes, c \in Nodes : UnlinkChild(t, d, c)
    \/ \E t \in Threads : RdLoopTornStep(t)

SpecDir == InitRd /\ [][NextDir]_vars

\* the words of the command lines ls is started with: "-l", "/", "/docs", "-la", a
\* name that just fits an argument buffer and one that does not
MaxWords == 3
LongName(n) == [i \in 1..n |-> 97]
LsWords == {DashL, PathRoot.s, PathDocs.s, <<CharDash, CharL, 97>>,
            LongName(ArgSize - 1), LongName(ArgSize)}

\* the lines of n words, one space between them
RECURSIVE LsLines(_)
LsLines(n) ==
    IF n = 1 THEN LsWords
    ELSE {l \o <<CharSpace>> \o w : l \in LsLines(n - 1), w \in LsWords}

\* no command line, the empty one, one of spaces only, and lines of up to MaxWords
\* words, also with a space in front, a space behind or two spaces between the words
CmdLines ==
    {NullPath, Str(<<>>), Str(<<CharSpace, CharSpace>>)}
    \cup {Str(l) : l \in UNION {LsLines(n) : n \in 1..MaxWords}}
    \cup {Str(<<CharSpace>> \o l) : l \in LsLines(1) \cup LsLines(2)}
    \cup {Str(l \o <<CharSpace>>) : l \in LsLines(1) \cup LsLines(2)}
    \cup {Str(a \o <<CharSpace, CharSpace>> \o b) : a \in LsWords, b \in LsWords}

\* ls has been started with a command line; no system call is in progress
InitLs ==
    /\ InitBase
    /\ frame = [t \in Threads |-> Idle]
    /\ last = NoCall
    /\ calls = 0
    /\ budget = 0
    /\ \E c \in CmdLines : ls = LsEntered(c)

NextLs ==
    \/ LsMainStep
    \/ LsListStep

SpecLs == InitLs /\ [][NextLs]_vars

----------------------------------------------------------------------------
(* The caller's view of its memory *)

\* byte j of a struct dirent: name[64], type, three bytes of padding, size (little endian)
EntByte(e, j) ==
    IF j < MAX_FILE_NAME_LENGTH THEN e.name[j]
    ELSE IF j = MAX_FILE_NAME_LENGTH THEN e.type
    ELSE IF j < MAX_FILE_NAME_LENGTH + 4 THEN 0
    ELSE (e.size \div (256 ^ (j - (MAX_FILE_NAME_LENGTH + 4)))) % 256

\* the byte at offset o of a region's storage: that of the latest copy over it, -1
\* when the kernel never wrote there
ByteAt(st, rid, o) ==
    LET over == {k \in 1..Len(st) : /\ st[k].rgn = rid
                                    /\ st[k].off <= o
                                    /\ o < st[k].off + SizeofDirent}
    IN  IF over = {} THEN 0 - 1
        ELSE LET k == CHOOSE x \in over : \A y \in over : y <= x
             IN  EntByte(st[k].ent, o - st[k].off)

\* the record w (a region, an offset, a dirent) is what the storage holds there
InBuffer(st, w) ==
    \A j \in 0..(SizeofDirent - 1) : ByteAt(st, w.rgn, w.off + j) = EntByte(w.ent, j)

----------------------------------------------------------------------------
(* Properties of do_readdir *)

Min(a, b) == IF a < b THEN a ELSE b

\* the destination [dst, dst + sizeof(dirent)) lies in one writable region of rgns
ValidDst(rgns, dst) ==
    \E r \in rgns : r.writable /\ r.base <= dst /\ dst + SizeofDirent <= r.base + r.size

\* the address of record i of a buffer
Slot(buf, i) == (buf + i * SizeofDirent) % Word

\* a path is relative: not null, not empty, and its first character is not '/'
Relative(path) == ~path.null /\ Len(path.s) > 0 /\ Head(path.s) # CharSlash

\* the node an absolute, null or empty path names (NoNode when there is none)
Target(path) ==
    LET chars == IF path.null \/ Len(path.s) = 0 THEN <<CharSlash>> ELSE path.s
    IN  IF \E n \in Nodes : NodePath(n) = chars
        THEN CHOOSE n \in Nodes : NodePath(n) = chars ELSE NoNode

\* the frames of the threads that are inside do_readdir, past its entry
InReaddir ==
    {t \in Threads : frame[t].pc \in {"rd_loop", "rd_validate", "rd_copy", "rd_ret"}}

\* the C string in a name field: the characters before the first NUL
CStr(name) ==
    LET nuls == {i \in DOMAIN name : name[i] = 0}
        n == IF nuls = {} THEN MAX_FILE_NAME_LENGTH
             ELSE CHOOSE i \in nuls : \A j \in nuls : i <= j
    IN  [k \in 1..n |-> name[k - 1]]

\* the first n characters of a string
Take(str, n) == [k \in 1..Min(Len(str), n) |-> str[k]]

\* C1: every record a readdir call copies goes to the slot user_buf + index *
\* sizeof(dirent), that whole slot lies inside one writable region of the calling
\* process, the copy follows a successful validation of that same destination, and
\* no byte of the storage is written outside such a region.
C1_CopiesStayInWritableRegions ==
    /\ \A t \in Threads :
          LET f == frame[t]
          IN  /\ Len(f.checked) = Len(f.written) + (IF f.pc = "rd_copy" THEN 1 ELSE 0)
              /\ \A i \in 1..Len(f.written) :
                    LET w == f.written[i]
                    IN  /\ w.dst = Slot(f.user_buf, i - 1)
                        /\ f.checked[i] = [dst |-> w.dst, rgn |-> w.rgn]
                        /\ \E r \in regions[Owner(t)] :
                              /\ r.id = w.rgn /\ r.writable
                              /\ r.base <= w.dst
                              /\ w.dst + SizeofDirent <= r.base + r.size
                              /\ w.off = w.dst - r.base
    /\ \A k \in 1..Len(storage) :
          \E r \in regions[storage[k].by] :
              /\ r.id = storage[k].rgn /\ r.writable
              /\ storage[k].off >= 0
              /\ storage[k].off + SizeofDirent <= r.size

\* C1 witness: a call has copied two records, the second ending exactly at the end
\* of its region
C1_Witness ==
    \E t \in Threads :
        /\ Len(frame[t].written) = 2
        /\ \E r \in regions[Owner(t)] :
              /\ r.id = frame[t].written[2].rgn
              /\ frame[t].written[2].dst + SizeofDirent = r.base + r.size

\* the call returned from a failed validation of a destination
FailedValidation(f) ==
    /\ f.pc = "rd_ret" /\ f.code # RcOk
    /\ f.node # NoNode /\ NodeKind(f.node) = "directory"

\* C2 (as claimed): after the validation of record k failed, the result is
\* not_supported with data 0, no record with index >= k has been built or written,
\* and the records 0..k-1 are in the caller's buffer.
C2_NothingBuiltFromK ==
    \A t \in Threads :
        LET f == frame[t]
        IN  FailedValidation(f) =>
                /\ f.code = RcNotSupported /\ f.data = 0
                /\ f.built <= f.counter
                /\ Len(f.written) = f.counter
                /\ \A i \in 1..Len(f.written) : InBuffer(storage, f.written[i])

\* the state part of C2 as amended: record k has been built, none after it
C2_AfterFailure ==
    \A t \in Threads :
        LET f == frame[t]
        IN  FailedValidation(f) =>
                /\ f.code = RcNotSupported /\ f.data = 0
                /\ f.built = f.counter + 1
                /\ Len(f.written) = f.counter
                /\ ~ValidDst(InitRegions[Owner(t)], Slot(f.user_buf, f.counter))
                /\ \A i \in 1..Len(f.written) :
                      /\ f.written[i].dst = Slot(f.user_buf, i - 1)
                      /\ InBuffer(storage, f.written[i])

\* the step part of C2: a validation that finds the destination outside every
\* writable region of the caller returns at once, writing nothing
C2_InvalidDestinationReturns ==
    \A t \in Threads :
        (/\ frame[t].pc = "rd_validate"
         /\ frame'[t] # frame[t]
         /\ ~ValidDst(regions[Owner(t)], frame[t].dst))
        => /\ frame'[t].pc = "rd_ret"
           /\ frame'[t].code = RcNotSupported /\ frame'[t].data = 0
           /\ frame'[t].written = frame[t].written
           /\ frame'[t].built = frame[t].built
           /\ storage' = storage

\* C2 (amended): a destination k that is in no region of the caller, straddles the
\* end of its region or lies in a non-writable region makes the call return
\* not_supported with data 0 at once; record k has been built but not written, no
\* record after k is built or written, and the records 0..k-1 are in the buffer.
C2_FailureIsImmediateAndPartial ==
    []C2_AfterFailure /\ [][C2_InvalidDestinationReturns]_vars

\* C2 witness: a call that failed at record 1 after copying record 0
C2_Witness ==
    \E t \in Threads :
        /\ FailedValidation(frame[t])
        /\ frame[t].counter = 1 /\ Len(frame[t].written) = 1 /\ frame[t].built = 2

\* what the record of child c holds
RecordOf(e, c) ==
    /\ CStr(e.name) = Take(NodeName(c), MAX_FILE_NAME_LENGTH - 1)
    /\ e.type = (IF NodeKind(c) = "directory" THEN CharD ELSE CharF)
    /\ e.size = (IF NodeKind(c) = "file" THEN NodeSize(c) ELSE 0)

\* C3: a call on a directory of N children whose first min(N, max_entries) slots are
\* valid returns ok; an ok call has data = min(N, max_entries), has built and
\* written exactly that many records, and record i, in slot i of the buffer, holds
\* the name (cut to 63 characters), type and size of child i.
C3_ListsFirstChildren ==
    \A t \in Threads :
        LET f == frame[t]
            d == Target(f.path)
            m == Min(Len(DiskChildren(d)), f.max_entries)
        IN  (f.pc = "rd_ret" /\ ~Relative(f.path) /\ d # NoNode
                /\ NodeKind(d) = "directory") =>
              /\ (\A i \in 0..(m - 1) :
                      ValidDst(InitRegions[Owner(t)], Slot(f.user_buf, i)))
                  => f.code = RcOk
              /\ f.code = RcOk =>
                    /\ f.data = m /\ f.built = m /\ Len(f.written) = m
                    /\ \A i \in 1..m :
                          /\ f.written[i].dst = Slot(f.user_buf, i - 1)
                          /\ RecordOf(f.written[i].ent, DiskChildren(d)[i])
                          /\ InBuffer(storage, f.written[i])

\* C3 witness: an ok call that listed max_entries = 3 of the root's four children
C3_Witness ==
    \E t \in Threads :
        /\ frame[t].pc = "rd_ret" /\ frame[t].code = RcOk
        /\ frame[t].node = "root" /\ frame[t].data = 3 /\ frame[t].max_entries = 3

\* C4: a relative path gives not_supported without a lookup, an absolute path with
\* no node not_found, a path to a file not_supported; each with data 0, no child
\* inspected, no destination validated and nothing copied, whatever user_buf and
\* max_entries are.
C4_PathIsClassifiedFirst ==
    \A t \in InReaddir :
        LET f == frame[t]
            untouched == /\ f.pc = "rd_ret" /\ f.data = 0 /\ f.built = 0
                         /\ f.checked = <<>> /\ f.written = <<>>
        IN  /\ Relative(f.path) =>
                 untouched /\ f.code = RcNotSupported /\ f.looked = <<>>
            /\ (~Relative(f.path) /\ Target(f.path) = NoNode) =>
                 untouched /\ f.code = RcNotFound
            /\ (~Relative(f.path) /\ Target(f.path) # NoNode
                   /\ NodeKind(Target(f.path)) = "file") =>
                 untouched /\ f.code = RcNotSupported

\* C4 witness: a path to a file refused although the buffer is valid and
\* max_entries is positive
C4_Witness ==
    \E t \in Threads :
        /\ frame[t].pc = "rd_ret" /\ frame[t].path = PathFile
        /\ frame[t].code = RcNotSupported
        /\ frame[t].max_entries > 0
        /\ ValidDst(regions[Owner(t)], frame[t].user_buf)

\* what a caller sees of a call run to its end
Outcome(r) == [code |-> r.f.code, data |-> r.f.data, storage |-> r.storage,
               loaded |-> r.loaded]

\* C5: from the state a call enters in, and with its user_buf and max_entries, the
\* empty path and the null path give the result and leave the storage that "/" gives.
C5_EmptyPathIsRoot ==
    \A t \in Threads :
        frame[t].pc = "rd_enter" =>
            LET run(path) == Outcome(RunReaddir([frame[t] EXCEPT !.path = path],
                                                regions, loaded, storage))
            IN  /\ run(PathEmpty) = run(PathRoot)
                /\ run(NullPath) = run(PathRoot)

\* C5 witness: a call entering with the empty path that will list two children
C5_Witness ==
    \E t \in Threads :
        /\ frame[t].pc = "rd_enter" /\ frame[t].path = PathEmpty
        /\ LET r == RunReaddir(frame[t], regions, loaded, storage)
           IN  r.f.code = RcOk /\ r.f.data = 2 /\ Len(r.storage) = 2

\* the name field holds the name nm, cut to fit, and its NUL
NameFieldOf(name, nm) ==
    /\ DOMAIN name = 0..(MAX_FILE_NAME_LENGTH - 1)
    /\ \E z \in DOMAIN name : name[z] = 0
    /\ Len(nm) < MAX_FILE_NAME_LENGTH =>
          /\ name[Len(nm)] = 0
          /\ \A k \in 1..Len(nm) : name[k - 1] = nm[k]
    /\ Len(nm) >= MAX_FILE_NAME_LENGTH =>
          /\ name[MAX_FILE_NAME_LENGTH - 1] = 0
          /\ \A k \in 1..(MAX_FILE_NAME_LENGTH - 1) : name[k - 1] = nm[k]

\* C6: the name field of every record built or written is exactly 64 bytes with a
\* NUL inside: a name shorter than 64 whole with the NUL after it, a longer one cut
\* to 63 bytes with the NUL at index 63; the name copy writes no index >= 64.
C6_NameIsTerminatedInField ==
    /\ \A t \in InReaddir :
          LET f == frame[t]
              kids == DiskChildren(f.node)
          IN  /\ \A i \in 1..Len(f.written) :
                    NameFieldOf(f.written[i].ent.name, NodeName(kids[i]))
              /\ f.pc \in {"rd_validate", "rd_copy"} =>
                    NameFieldOf(f.ent.name, NodeName(kids[f.it]))
    /\ \A k \in 1..Len(storage) :
          DOMAIN storage[k].ent.name = 0..(MAX_FILE_NAME_LENGTH - 1)

\* C6 witness: the records of the 65-, 64- and 63-character names have been written
C6_Witness ==
    \E t \in Threads :
        /\ frame[t].node = "root" /\ Len(frame[t].written) = 3
        /\ Len(CStr(frame[t].written[1].ent.name)) = MAX_FILE_NAME_LENGTH - 1
        /\ Len(CStr(frame[t].written[3].ent.name)) = MAX_FILE_NAME_LENGTH - 1

\* C7 (as claimed): the region a destination was validated against is still a
\* region of the caller when the record is copied into it.
C7_CopyTargetsOwnedRegion ==
    \A t \in Threads :
        frame[t].pc = "rd_copy" => frame[t].rgn \in regions[frame[t].caller]

----------------------------------------------------------------------------
(* Properties of handle_syscall *)

\* the numbers of the nineteen enumerators of syscall_numbers
Enumerated == 0..(Len(SyscallNames) - 1)

\* the cases that forward to an object
ObjectCalls ==
    {Num("write"), Num("pwrite"), Num("read"), Num("pread"), Num("ioctl"),
     Num("wait_for_process"), Num("join_thread")}

\* the state part of C8: what a call with an unknown code has returned
C8_UnknownResult ==
    (last.thread # "none" /\ last.index \notin Enumerated) =>
        /\ last.returned /\ last.code = RcNotSupported /\ last.data = 0
        /\ last.logged /\ last.invoked = <<>>

\* the step part of C8: a call with an unknown code changes nothing but the log
C8_UnknownChangesNothing ==
    (calls' = calls + 1 /\ last'.index \notin Enumerated) =>
        UNCHANGED <<kstate, regions, nextRgn, storage, loaded, objects, nextId, procs,
                    hw, frame, closed>>

\* C8: a call whose operation code is none of the nineteen enumerators returns
\* not_supported with data 0 and a log line, whatever its arguments, and changes no
\* process, handle table, address space, filesystem or hardware state.
C8_UnknownOpcodeRejected ==
    []C8_UnknownResult /\ [][C8_UnknownChangesNothing]_vars

\* C8 witness: the call with code 19 and a large arg0 has returned not_supported
C8_Witness ==
    /\ last.index = Len(SyscallNames) /\ last.args[1] = Word \div 2
    /\ last.returned /\ last.code = RcNotSupported

\* the operation and arguments each forwarding call hands to the object
Forwarded(index, a) ==
    CASE index = Num("write")  -> [op |-> "write",  args |-> <<a[2], a[3]>>]
      [] index = Num("pwrite") -> [op |-> "pwrite", args |-> <<a[2], a[3], a[4]>>]
      [] index = Num("read")   -> [op |-> "read",   args |-> <<a[2], a[3]>>]
      [] index = Num("pread")  -> [op |-> "pread",  args |-> <<a[2], a[3], a[4]>>]
      [] index = Num("ioctl")  -> [op |-> "ioctl",  args |-> <<a[2], a[3], a[4]>>]
      [] index = Num("wait_for_process") ->
                                  [op |-> "wait_for_status_change", args |-> <<>>]
      [] index = Num("join_thread") -> [op |-> "join", args |-> <<>>]

\* C9: write, pwrite, read, pread, ioctl, wait_for_process and join_thread return
\* not_found with data 0 and invoke nothing when the calling process's table has no
\* object under arg0 (also when another process's table has one); else they invoke
\* the one corresponding operation of that object once, with the remaining
\* arguments, and return its code and data.
C9_ObjectCallsForward ==
    (last.returned /\ last.index \in ObjectCalls) =>
        LET p == Owner(last.thread)
            h == last.args[1]
        IN  IF \A o \in objects[p] : o.id # h
            THEN last.code = RcNotFound /\ last.data = 0 /\ last.invoked = <<>>
            ELSE /\ Len(last.invoked) = 1
                 /\ last.invoked[1].obj = h /\ last.invoked[1].owner = p
                 /\ last.invoked[1].op = Forwarded(last.index, last.args).op
                 /\ last.invoked[1].args = Forwarded(last.index, last.args).args
                 /\ last.code = last.invoked[1].res.code
                 /\ last.data = last.invoked[1].res.data

\* C9 witness: a pread of p1 on its handle returned what the object answered, while
\* p2 holds a handle of its own
C9_Witness ==
    /\ last.returned /\ last.index = Num("pread") /\ last.thread = "t1"
    /\ last.invoked # <<>> /\ last.code = RcNotSupported /\ last.data = 9
    /\ objects["p2"] # {}

\* C10 (as claimed): once a process has closed a handle id, each of its calls on
\* that id returns not_found.
C10_ClosedIdNeverFound ==
    (last.returned /\ last.index \in ObjectCalls
        /\ \E c \in closed[Owner(last.thread)] : c.id = last.args[1])
    => last.code = RcNotFound

\* C10 (amended): once a process has closed a handle id, each of its calls on that
\* id returns not_found without reaching an object, until an open, start_process or
\* start_thread of the process returns that id.
C10_ClosedIdNotFoundUntilReissued ==
    (last.returned /\ last.index \in ObjectCalls
        /\ [id |-> last.args[1], again |-> FALSE] \in closed[Owner(last.thread)])
    => last.code = RcNotFound /\ last.data = 0 /\ last.invoked = <<>>

\* C10 witness: p1 closed its live handle 1 and a later read of it found nothing
C10_Witness ==
    /\ last.returned /\ last.index = Num("read") /\ last.thread \in {"t1", "t2"}
    /\ last.args[1] = 1 /\ [id |-> 1, again |-> FALSE] \in closed["p1"]
    /\ last.code = RcNotFound

\* the state part of C11: what a close has returned
C11_CloseResult ==
    (last.thread # "none" /\ last.index = Num("close")) =>
        /\ last.returned /\ last.code = RcOk /\ last.data = 0 /\ last.invoked = <<>>
        /\ \A o \in objects[Owner(last.thread)] : o.id # last.args[1]

\* the step part of C11: a close removes the object under its id from the caller's
\* table and nothing else; on an id the table does not hold it changes no table
C11_CloseStep ==
    (calls' = calls + 1 /\ last'.index = Num("close")) =>
        LET p == Owner(last'.thread)
            h == last'.args[1]
        IN  /\ \A q \in Procs \ {p} : objects'[q] = objects[q]
            /\ \A o \in objects[p] : o.id # h => o \in objects'[p]
            /\ objects'[p] \subseteq objects[p]
            /\ (\A o \in objects[p] : o.id # h) => objects' = objects
            /\ nextId' = nextId

\* C11: close returns ok with data 0 for a live handle, for an id never handed out
\* and for an id closed before; after it the caller's table holds nothing under the
\* id, a second close of the id leaves the table as the first left it, and the table
\* of no other process changes.
C11_CloseIsIdempotent ==
    []C11_CloseResult /\ [][C11_CloseStep]_vars

\* C11 witness: after p1 closed its live handle 1, p1 closed the id 3 that was never
\* handed out, and p2 still holds its handle
C11_Witness ==
    /\ last.returned /\ last.index = Num("close") /\ last.code = RcOk
    /\ last.args[1] = 3 /\ nextId = 3 /\ Owner(last.thread) = "p1"
    /\ [id |-> 1, again |-> FALSE] \in closed["p1"] /\ objects["p1"] = {}
    /\ objects["p2"] # {}

\* the path names a node of the filesystem
Exists(path) == \E n \in Nodes : NodePath(n) = path.s

\* the node a path names can be opened: the filesystem opens files, not directories
Opens(path) == \E n \in Nodes : NodePath(n) = path.s /\ NodeKind(n) = "file"

\* some process holds an object under the id
Held(tables, id) == \E q \in Procs : \E o \in tables[q] : o.id = id

\* C12 (as claimed): open on a path whose node exists returns ok.
C12_OpenOfExistingNodeIsOk ==
    (last.returned /\ last.index = Num("open") /\ Exists(last.args[1]))
        => last.code = RcOk

\* the step part of C12: what an open does to the handle tables
C12_OpenStep ==
    (calls' = calls + 1 /\ last'.index = Num("open")) =>
        LET p == Owner(last'.thread)
            path == last'.args[1]
        IN  /\ last'.returned
            /\ \A q \in Procs \ {p} : objects'[q] = objects[q]
            /\ ~Exists(path) =>
                  /\ last'.code = RcNotFound /\ last'.data = 0
                  /\ objects' = objects /\ nextId' = nextId
            /\ (Exists(path) /\ ~Opens(path)) =>
                  /\ last'.code = RcNotSupported /\ last'.data = 0
                  /\ objects' = objects /\ nextId' = nextId
            /\ Opens(path) =>
                  /\ last'.code = RcOk
                  /\ ~Held(objects, last'.data)
                  /\ \E o \in objects'[p] :
                        /\ o.id = last'.data /\ o.kind = "file"
                        /\ objects'[p] = objects[p] \cup {o}

\* the step part of C12: the call after an open that returned ok, made by the same
\* process on the id the open returned, finds the object
C12_HandleIsUsable ==
    (/\ last.returned /\ last.index = Num("open") /\ last.code = RcOk
     /\ calls' = calls + 1
     /\ Owner(last'.thread) = Owner(last.thread)
     /\ last'.index \in {Num("read"), Num("write"), Num("close")}
     /\ last'.args[1] = last.data) =>
        /\ last'.index \in {Num("read"), Num("write")} =>
              /\ Len(last'.invoked) = 1
              /\ last'.invoked[1].obj = last.data
              /\ last'.code = last'.invoked[1].res.code
        /\ last'.index = Num("close") =>
              /\ last'.code = RcOk
              /\ \E o \in objects[Owner(last.thread)] :
                    o.id = last.data /\ o \notin objects'[Owner(last.thread)]

\* C12 (amended): open on a path with no node returns not_found with data 0 and
\* creates no handle; on a node the filesystem does not open it returns
\* not_supported with data 0 and creates no handle; on a node it opens it returns ok
\* with the id of a new file handle in the caller's table, an id no table held, and
\* read, write and close of that process on the id then find the object.
C12_OpenYieldsUsableHandle ==
    [][C12_OpenStep]_vars /\ [][C12_HandleIsUsable]_vars

\* C12 witness: a read of the handle 3 that an open put into the caller's table has
\* reached the file object
C12_Witness ==
    /\ last.returned /\ last.index = Num("read") /\ last.args[1] = 3
    /\ Len(last.invoked) = 1 /\ last.invoked[1].obj = 3
    /\ CreateObject(3, "file") \in objects[Owner(last.thread)]

\* C13 (as claimed): whatever the collaborators answer, the kernel does not fault,
\* and every call that has returned carries one of the codes ok, not_found and
\* not_supported.
C13_FailuresAreReported ==
    /\ kstate = "running"
    /\ last.returned => last.code \in {RcOk, RcNotFound, RcNotSupported}

\* C14 (as claimed): the region an alloc_mem call obtained and returned the base of
\* is writable, and its size is a multiple of the page size and at least arg0.
C14_RegionCoversRequest ==
    (last.returned /\ last.index = Num("alloc_mem")) =>
        \A r \in regions[Owner(last.thread)] :
            (r.id = nextRgn - 1 /\ r.base = last.data) =>
                /\ r.writable
                /\ r.size % PAGE_SIZE = 0
                /\ r.size >= last.args[1]


\* the words of a command line: its maximal runs of characters other than the space
WordsOf(chars) ==
    LET starts == {i \in DOMAIN chars :
                      chars[i] # CharSpace /\ (i = 1 \/ chars[i - 1] = CharSpace)}
        ends == {i \in DOMAIN chars :
                    chars[i] # CharSpace /\ (i = Len(chars) \/ chars[i + 1] = CharSpace)}
        Nth(set, k) == CHOOSE i \in set : Cardinality({j \in set : j < i}) = k - 1
    IN  [k \in 1..Cardinality(starts) |-> SubSeq(chars, Nth(starts, k), Nth(ends, k))]

Words(cmdline) == IF cmdline.null THEN <<>> ELSE WordsOf(cmdline.s)

\* what is left of a word after its first n characters
Drop(str, n) == [k \in 1..(Len(str) - Min(Len(str), n)) |-> str[k + n]]

\* ls has ended after one listing: one readdir of the path into a 256-entry buffer,
\* the listing in the given form, exit status 0
Listed(long, chars) ==
    /\ ls.reads = <<[path |-> Str(chars), max_entries |-> 256]>>
    /\ ls.long_flag = long
    /\ ~ls.usage
    /\ ls.status = 0

\* ls has ended with the usage message: no readdir, exit status 1
UsageError == ls.usage /\ ls.reads = <<>> /\ ls.status = 1

\* C15 (as claimed): no arguments list the root in short form, -l alone the root in
\* long form, a single other token that path in short form, -l and a path that path
\* in long form; every other two-token line prints the usage message, issues no
\* readdir and exits with 1; every other form exits with 0; each listing issues
\* exactly one readdir with a 256-entry buffer.
C15_TokensDecideTheListing ==
    ls.pc = "exit" =>
        LET w == Words(ls.cmdline)
        IN  CASE w = <<>> -> Listed(FALSE, <<>>)
              [] Len(w) = 1 /\ w[1] = DashL -> Listed(TRUE, <<>>)
              [] Len(w) = 1 /\ w[1] # DashL -> Listed(FALSE, w[1])
              [] Len(w) = 2 /\ w[1] = DashL -> Listed(TRUE, w[2])
              [] Len(w) = 2 /\ w[1] # DashL -> UsageError
              [] OTHER -> ls.status = 0

\* the first argument main sees: nothing when the line starts with a space, else the
\* first 127 characters of the first word
FirstArg(cmdline) ==
    LET w == Words(cmdline)
    IN  IF w = <<>> \/ Head(cmdline.s) = CharSpace THEN <<>> ELSE Take(w[1], ArgSize - 1)

\* the second argument main sees: the first 127 characters of what follows the
\* first argument; the rest of a first word longer than 127 characters, else the
\* next word, and nothing when there is none
SecondArg(cmdline) ==
    LET w == Words(cmdline)
        rest == IF w = <<>> THEN <<>>
                ELSE IF Head(cmdline.s) = CharSpace THEN w
                ELSE IF Len(w[1]) > ArgSize - 1 THEN <<Drop(w[1], ArgSize - 1)>> \o Tail(w)
                ELSE Tail(w)
    IN  IF rest = <<>> THEN <<>> ELSE Take(rest[1], ArgSize - 1)

\* C15 (amended): ls looks at two arguments only, each cut to 127 characters, the
\* first one empty when the line starts with a space. Without a second argument it
\* lists the root in long form when the first is -l and else the first argument (the
\* root when it is empty) in short form; with a second argument it lists that in
\* long form when the first is -l, whatever follows, and else prints the usage
\* message, issues no readdir and exits with 1, also for lines of three and more
\* words. Every listing issues exactly one readdir with a 256-entry buffer and exits
\* with 0.
C15_ArgumentsDecideTheListing ==
    ls.pc = "exit" =>
        LET a1 == FirstArg(ls.cmdline)
            a2 == SecondArg(ls.cmdline)
        IN  CASE a2 = <<>> /\ a1 = DashL -> Listed(TRUE, <<>>)
              [] a2 = <<>> /\ a1 # DashL -> Listed(FALSE, a1)
              [] a2 # <<>> /\ a1 = DashL -> Listed(TRUE, a2)
              [] OTHER -> UsageError

\* ls -l /docs has listed /docs in long form with one readdir
C15_Witness ==
    /\ ls.pc = "exit"
    /\ ls.cmdline = Str(DashL \o <<CharSpace>> \o PathDocs.s)
    /\ Listed(TRUE, PathDocs.s)


\* C16: no operation changes the children list of a directory while a readdir call
\* is between ensure_loaded and the end of its loop over that list; every iteration
\* sees the list wholly before or wholly after each change.
C16_IterationExcludesChanges == dirs.torn = {}


\* the threads that have stopped themselves
Stopped == {t \in Threads : frame[t].pc = "stopped"}

\* a stop_current_thread call is never answered
C17_NoReturn ==
    /\ (last.thread # "none" /\ last.index = Num("stop_current_thread")) => ~last.returned
    /\ \A t \in Stopped : last.thread = t => ~last.returned

\* a stopped thread takes no further step: its frame stays, and no call is made or
\* answered in its name
C17_StoppedStays ==
    \A t \in Stopped :
        /\ frame'[t] = frame[t]
        /\ last'.thread = t => (last.thread = t /\ ~last'.returned /\ calls' = calls)

\* the step that stops a thread stops that thread only
C17_StopStep ==
    (calls' = calls + 1 /\ last'.index = Num("stop_current_thread")) =>
        LET t == last'.thread
        IN  /\ frame[t].pc = "user" /\ frame'[t].pc = "stopped"
            /\ \A u \in Threads \ {t} : frame'[u] = frame[u]
            /\ procs' = procs /\ kstate' = kstate /\ hw' = hw
            /\ objects' = objects /\ regions' = regions

C18_NoRecordPastRegionEnd ==
    \A t \in Threads :
        \A i \in DOMAIN frame[t].checked :
            LET c == frame[t].checked[i]
            IN  \A r \in regions[Owner(t)] :
                    r.id = c.rgn => c.dst + SizeofDirent <= r.base + r.size


\* the call failed in path resolution: a relative path, no node, or a node that is
\* not a directory
FailedResolution(f) ==
    /\ f.pc = "rd_ret" /\ f.code # RcOk
    /\ \/ Relative(f.path)
       \/ Target(f.path) = NoNode
       \/ NodeKind(Target(f.path)) # "directory"

\* the thread takes a step of do_readdir
RdStepOf(t) ==
    /\ frame[t].pc \in {"rd_enter", "rd_loop", "rd_validate", "rd_copy", "rd_ret"}
    /\ frame'[t] # frame[t]

\* a call that has failed in path resolution has built and written nothing, and no
\* directory has been loaded
C19_FailedResolutionState ==
    \A t \in Threads :
        LET f == frame[t]
        IN  FailedResolution(f) =>
                /\ f.built = 0 /\ f.checked = <<>> /\ f.written = <<>>
                /\ storage = <<>>
                /\ loaded = {}

\* after an ok with data n, the kernel has written the n slots user_buf[0..n-1] of
\* the caller and no byte outside them
C19_OkWritesItsSlots ==
    \A t \in Threads :
        LET f == frame[t]
        IN  (f.pc = "rd_ret" /\ f.code = RcOk) =>
                /\ Len(f.written) = f.data
                /\ Len(storage) = f.data
                /\ \A k \in 1..Len(storage) :
                      /\ storage[k].by = Owner(t)
                      /\ \E r \in regions[Owner(t)] :
                            /\ r.id = storage[k].rgn
                            /\ r.base + storage[k].off = f.user_buf + (k - 1) * SizeofDirent
                            /\ r.base + storage[k].off + SizeofDirent
                                  <= f.user_buf + f.data * SizeofDirent

\* a step of do_readdir changes no handle table and no address space; the step that
\* ends a call in path resolution loads no directory and writes nothing; the only
\* step that writes is the copy, and it writes the slot of the counter
C19_ReaddirStep ==
    \A t \in Threads :
        RdStepOf(t) =>
            /\ objects' = objects /\ nextId' = nextId /\ closed' = closed
            /\ regions' = regions /\ nextRgn' = nextRgn
            /\ (frame[t].pc = "rd_enter" /\ frame'[t].pc = "rd_ret") =>
                   (loaded' = loaded /\ storage' = storage)
            /\ frame[t].pc # "rd_enter" => loaded' = loaded
            /\ frame[t].pc # "rd_copy" => storage' = storage
            /\ frame[t].pc = "rd_copy" =>
                   /\ Len(storage') = Len(storage) + 1
                   /\ SubSeq(storage', 1, Len(storage)) = storage
                   /\ storage'[Len(storage')].by = Owner(t)
                   /\ storage'[Len(storage')].off + frame[t].rgn.base =
                          Slot(frame[t].user_buf, frame[t].counter)

\* C19: a readdir call that fails in path resolution leaves the buffer, the address
\* space and the handle table as they were and loads no directory; an ok call with
\* data n changes the n slots user_buf[0..n-1] and nothing beyond; no step of a
\* readdir call changes a handle table.
C19_ReaddirFrame ==
    /\ []C19_FailedResolutionState
    /\ []C19_OkWritesItsSlots
    /\ [][C19_ReaddirStep]_vars

\* a call on a file has returned not_supported: nothing is loaded, nothing written
C19_Witness ==
    \E t \in Threads :
        /\ FailedResolution(frame[t])
        /\ frame[t].node # NoNode /\ NodeKind(frame[t].node) = "file"
        /\ frame[t].code = RcNotSupported
        /\ loaded = {} /\ storage = <<>>


\* in a call past its entry, the counter is the number of records written, they are
\* in the slots 0..counter-1, the counter is at most min(number of children,
\* max_entries), and an ok result carries it
C20_CounterCountsRecords ==
    \A t \in InReaddir :
        LET f == frame[t]
        IN  /\ f.counter = Len(f.written)
            /\ \A i \in 1..f.counter : f.written[i].dst = Slot(f.user_buf, i - 1)
            /\ f.node # NoNode =>
                   f.counter <= Min(Len(DiskChildren(f.node)), f.max_entries)
            /\ (f.pc = "rd_ret" /\ f.code = RcOk) => f.data = f.counter

\* inside a call the counter goes up by one with each record written, and only then
C20_CounterStep ==
    \A t \in Threads :
        (frame[t].pc # "user" /\ frame'[t].pc # "user" /\ frame'[t] # frame[t]) =>
            /\ frame'[t].counter - frame[t].counter =
                   Len(frame'[t].written) - Len(frame[t].written)
            /\ frame'[t].counter - frame[t].counter \in {0, 1}
            /\ frame'[t].counter = frame[t].counter + 1 <=> frame[t].pc = "rd_copy"

\* a call that has entered do_readdir returns to its thread
C20_Returns ==
    \A t \in Threads :
        frame[t].pc = "rd_enter" ~>
            (frame[t].pc = "user" /\ last.thread = t /\ last.returned)

\* C20: the loop of readdir ends for every directory and every max_entries, and
\* the call returns; at each iteration the
\* counter is the number of records written, in the slots 0..counter-1, and at most
\* min(number of children, max_entries); it goes up by one per record written and
\* is the data of an ok result.
C20_LoopTerminatesCounting ==
    /\ []C20_CounterCountsRecords
    /\ [][C20_CounterStep]_vars
    /\ C20_Returns

\* a call on the root with max_entries = 2 has written two of the four children
\* and is about to return ok with data 2
C20_Witness ==
    \E t \in Threads :
        /\ frame[t].pc = "rd_ret" /\ frame[t].code = RcOk
        /\ frame[t].node = Target(PathRoot) /\ frame[t].max_entries = 2
        /\ frame[t].counter = 2 /\ frame[t].data = 2 /\ Len(frame[t].written) = 2

====
